---------------------------- MODULE Spec2Model ----------------------------
(***************************************************************************)
(* Model of src/utils.py: per-student learning analytics over two tables,  *)
(* student_records (one row per student/lecture/chapter) and               *)
(* lecture_weights (one row per lecture/chapter, one weight column per     *)
(* skill).  Every function of the file is one action; the pandas steps it  *)
(* performs (boolean indexing, melt, merge, groupby/sum, idxmax, cut) are  *)
(* operators computed the way pandas computes them.  Floating point values *)
(* are modelled as exact fractions plus the IEEE sentinels NaN and +-inf.  *)
(***************************************************************************)
EXTENDS Integers, Sequences, FiniteSets, TLC

VARIABLES student_records, lecture_weights, call, ret, last_result, last_score_dist, written

vars == <<student_records, lecture_weights, call, ret, last_result, last_score_dist, written>>

---------------------------------------------------------------------------
(* Bounds of the model. *)

\* largest number of rows of lecture_weights
MaxRows == 3

\* largest number of rows of student_records
MaxRecords == 2

---------------------------------------------------------------------------
(* Floating point values: num/den in lowest terms with den > 0; den = 0 is *)
(* NaN (num = 0) or +-inf (num = +-1).                                      *)

Abs(n) == IF n < 0 THEN -n ELSE n

RECURSIVE GCD(_, _)
GCD(a, b) == IF b = 0 THEN a ELSE GCD(b, a % b)

Sign(n) == IF n > 0 THEN 1 ELSE IF n < 0 THEN -1 ELSE 0

Float(n, d) ==
    IF d = 0 THEN [num |-> Sign(n), den |-> 0]
    ELSE LET s == IF d < 0 THEN -1 ELSE 1
             g == GCD(Abs(n), Abs(d))
         IN  [num |-> (s * n) \div g, den |-> (s * d) \div g]

NaN == [num |-> 0, den |-> 0]

IsNaN(x) == x.den = 0 /\ x.num = 0

IsFinite(x) == x.den > 0

FromInt(n) == Float(n, 1)

\* x + y (IEEE: NaN propagates, inf - inf is NaN)
FAdd(x, y) ==
    IF IsFinite(x) /\ IsFinite(y) THEN Float(x.num * y.den + y.num * x.den, x.den * y.den)
    ELSE IF IsNaN(x) \/ IsNaN(y) THEN NaN
    ELSE IF IsFinite(x) THEN y
    ELSE IF IsFinite(y) THEN x
    ELSE IF x.num = y.num THEN x ELSE NaN

\* x * y (IEEE: 0 * inf is NaN)
FMul(x, y) ==
    IF IsFinite(x) /\ IsFinite(y) THEN Float(x.num * y.num, x.den * y.den)
    ELSE IF IsNaN(x) \/ IsNaN(y) THEN NaN
    ELSE Float(Sign(x.num) * Sign(y.num), 0)

\* x / y as numpy divides float arrays: x/0 is +-inf, 0/0 is NaN, no exception
FDiv(x, y) ==
    IF IsNaN(x) \/ IsNaN(y) THEN NaN
    ELSE IF IsFinite(x) /\ IsFinite(y) THEN Float(x.num * y.den, x.den * y.num)
    ELSE IF IsFinite(x) THEN FromInt(0)
    ELSE IF IsFinite(y) THEN Float(Sign(x.num) * (IF y.num < 0 THEN -1 ELSE 1), 0)
    ELSE NaN

\* x < y; every comparison with NaN is false
FLess(x, y) ==
    IF IsNaN(x) \/ IsNaN(y) THEN FALSE
    ELSE IF IsFinite(x) /\ IsFinite(y) THEN x.num * y.den < y.num * x.den
    ELSE IF IsFinite(x) THEN y.num > 0
    ELSE IF IsFinite(y) THEN x.num < 0
    ELSE x.num < y.num

\* floor of n/d for d > 0
FloorDiv(n, d) == IF n >= 0 THEN n \div d ELSE -((-n + d - 1) \div d)

\* round(x, digits) for scale = 10^digits: nearest multiple of 1/scale, ties to even
RoundTo(x, scale) ==
    IF ~IsFinite(x) THEN x
    ELSE LET n == x.num * scale
             q == FloorDiv(n, x.den)
             r == n - q * x.den
             up == \/ 2 * r > x.den
                   \/ 2 * r = x.den /\ q % 2 = 1
         IN  Float(IF up THEN q + 1 ELSE q, scale)


---------------------------------------------------------------------------
(* Tables.  A table is a sequence of rows (records keyed by column name);  *)
(* lecture_weights also carries its column order, which melt follows.      *)

\* the id columns of lecture_weights named in melt(id_vars=...)
IdVars == {"lecture", "chapter"}

\* skill names in ascending string order (the order groupby sorts its keys in)
SkillNames == <<"Dart", "State", "Widget">>

SkillRank(s) == CHOOSE i \in DOMAIN SkillNames : SkillNames[i] = s

Range(seq) == {seq[i] : i \in DOMAIN seq}

RECURSIVE Concat(_)
Concat(seqs) == IF seqs = <<>> THEN <<>> ELSE Head(seqs) \o Concat(Tail(seqs))

RECURSIVE SumInt(_)
SumInt(seq) == IF seq = <<>> THEN 0 ELSE Head(seq) + SumInt(Tail(seq))

RECURSIVE SumFloat(_)
SumFloat(seq) == IF seq = <<>> THEN FromInt(0) ELSE FAdd(Head(seq), SumFloat(Tail(seq)))

\* the positions of seq selected by a boolean mask, ascending
RECURSIVE MaskedPositions(_, _)
MaskedPositions(mask, i) ==
    IF i > Len(mask) THEN <<>>
    ELSE (IF mask[i] THEN <<i>> ELSE <<>>) \o MaskedPositions(mask, i + 1)

\* df[mask] that would alias its parent: a setitem on it would write through
TakeRows(df, pos, shares) ==
    [idx |-> pos, rows |-> [k \in DOMAIN pos |-> df[pos[k]]], shares |-> shares]

BoolIndexView(df, mask) == TakeRows(df, MaskedPositions(mask, 1), TRUE)

\* df[mask] -- boolean indexing takes the selected rows into a new frame that
\* keeps the parent's index labels and owns its data
BoolIndex(df, mask) == TakeRows(df, MaskedPositions(mask, 1), FALSE)

\* frame.copy()
Copy(frame) == [frame EXCEPT !.shares = FALSE]

\* a row with column col set to value v (added when absent)
WithColumn(row, col, v) ==
    [c \in DOMAIN row \cup {col} |-> IF c = col THEN v ELSE row[c]]

\* frame[col] = values, on the frame itself (values[k] goes to the k-th row)
SetItem(frame, col, values) ==
    [frame EXCEPT !.rows = [k \in DOMAIN frame.rows |->
                              WithColumn(frame.rows[k], col, values[k])]]

\* what frame[col] = values leaves in the table the frame was taken from: nothing,
\* unless the frame shares the table's data
ParentAfterSetItem(parent, frame, col, values) ==
    IF frame.shares
    THEN [i \in DOMAIN parent |->
            IF \E k \in DOMAIN frame.idx : frame.idx[k] = i
            THEN WithColumn(parent[i], col,
                            values[CHOOSE k \in DOMAIN frame.idx : frame.idx[k] = i])
            ELSE parent[i]]
    ELSE parent

\* exam1 + exam2 / 2: the average without its parentheses
ExamAvgUnparenthesized(row) ==
    FAdd(FromInt(row.exam1), FDiv(FromInt(row.exam2), FromInt(2)))

\* (exam1 + exam2) / 2
ExamAvg(row) == FDiv(FromInt(row.exam1 + row.exam2), FromInt(2))

\* the series (df["exam1"] + df["exam2"]) / 2
ExamAvgSeries(rows) == [k \in DOMAIN rows |-> ExamAvg(rows[k])]

\* df["exam_avg"] = (df["exam1"] + df["exam2"]) / 2
WithExamAvg(df) == SetItem(df, "exam_avg", ExamAvgSeries(df.rows))

\* the long-form rows of one value column, in row order
MeltColumn(rows, skill) ==
    [i \in DOMAIN rows |->
        [lecture |-> rows[i].lecture, chapter |-> rows[i].chapter,
         skill |-> skill, weight |-> rows[i][skill]]]

ValueVars(columns) == SelectSeq(columns, LAMBDA c : c \notin IdVars)

MeltColumns(rows, value_vars) ==
    Concat([j \in DOMAIN value_vars |-> MeltColumn(rows, value_vars[j])])

\* lecture_df.melt(id_vars=["lecture","chapter"], var_name="skill", value_name="weight"):
\* one block per value column, in column order, each block in row order
Melt(lecture_df) == MeltColumns(lecture_df.rows, ValueVars(lecture_df.columns))

\* one merged row, with weighted_score = exam_avg * weight
MergedRow(left, m) ==
    [lecture |-> m.lecture, chapter |-> m.chapter, exam_avg |-> left.exam_avg,
     skill |-> m.skill, weight |-> m.weight,
     weighted_score |-> FMul(left.exam_avg, FromInt(m.weight))]

MergedRows(left, hits) == [h \in DOMAIN hits |-> MergedRow(left, hits[h])]

\* pd.merge(left[["lecture","chapter","exam_avg"]], melted, on=["lecture","chapter"],
\* how="inner"): every left row with every long-form row of its (lecture, chapter),
\* in left order; a left row with no such row is dropped
MergeWeighted(left_rows, melted) ==
    Concat([k \in DOMAIN left_rows |->
              MergedRows(left_rows[k],
                         SelectSeq(melted, LAMBDA m : m.lecture = left_rows[k].lecture
                                                    /\ m.chapter = left_rows[k].chapter))])

\* group keys in the order the rows bring them (what groupby(sort=False) would give)
RECURSIVE KeysInOrder(_, _)
KeysInOrder(rows, seen) ==
    IF rows = <<>> THEN <<>>
    ELSE IF Head(rows).skill \in seen THEN KeysInOrder(Tail(rows), seen)
    ELSE <<Head(rows).skill>> \o KeysInOrder(Tail(rows), seen \cup {Head(rows).skill})

GroupKeysUnsorted(rows) == KeysInOrder(rows, {})

SkillsPresent(rows) == {rows[i].skill : i \in DOMAIN rows}

SortedSkills(present) == SelectSeq(SkillNames, LAMBDA s : s \in present)

\* the group keys of groupby("skill"): the skills present, sorted ascending
GroupKeys(rows) == SortedSkills(SkillsPresent(rows))

RawScoreRow(skill, grp) ==
    [skill |-> skill,
     raw_score |-> SumFloat([i \in DOMAIN grp |-> grp[i].weighted_score])]

RawScoreRows(merged, keys) ==
    [g \in DOMAIN keys |->
        RawScoreRow(keys[g], SelectSeq(merged, LAMBDA r : r.skill = keys[g]))]

\* merged.groupby("skill")["weighted_score"].sum().reset_index(name="raw_score")
SkillScore(merged) == RawScoreRows(merged, GroupKeys(merged))

\* a skill's weight_sum and max_score = weight_sum * 100
MaxScoreRow(skill, weight_sum) ==
    [skill |-> skill, weight_sum |-> weight_sum, max_score |-> weight_sum * 100]

\* the number of chapters in place of the sum of their weights
WeightCount(grp) == Len(grp)

WeightSum(grp) == SumInt([i \in DOMAIN grp |-> grp[i].weight])

MaxScoreRows(melted, keys) ==
    [g \in DOMAIN keys |->
        MaxScoreRow(keys[g], WeightSum(SelectSeq(melted, LAMBDA r : r.skill = keys[g])))]

\* melted.groupby("skill")["weight"].sum() with the max_score column
SkillMax(melted) == MaxScoreRows(melted, GroupKeys(melted))

\* (raw_score / max_score) * 100
Normalize(raw_score, max_score) ==
    FMul(FDiv(raw_score, FromInt(max_score)), FromInt(100))

ScoreRow(score, max) ==
    [skill |-> score.skill, raw_score |-> score.raw_score,
     weight_sum |-> max.weight_sum, max_score |-> max.max_score,
     normalized_score |-> Normalize(score.raw_score, max.max_score)]

ScoreRows(score, hits) == [h \in DOMAIN hits |-> ScoreRow(score, hits[h])]

\* pd.merge(skill_score, skill_max, on="skill") with the normalized_score column
ScoreTable(skill_score, skill_max) ==
    Concat([k \in DOMAIN skill_score |->
              ScoreRows(skill_score[k],
                        SelectSeq(skill_max, LAMBDA m : m.skill = skill_score[k].skill))])

ScoreTableOf(with_avg, melted) ==
    ScoreTable(SkillScore(MergeWeighted(with_avg, melted)), SkillMax(melted))

\* the score table of one student from the rows carrying exam_avg
SkillResult(stu_rows, lecture_df) == ScoreTableOf(stu_rows, Melt(lecture_df))

---------------------------------------------------------------------------
(* report_student_skill_analysis and plot_student_proficiency_radar *)

\* the arguments both functions are called with
StudentNames == {"Alice", "Bob"}

\* the default output directory
DefaultPath == "./plots"

\* series.idxmax() / idxmin() skip NaN; on an empty or all-NaN series there is
\* no label to return and the selection that follows raises
Selectable(values) == {i \in DOMAIN values : ~IsNaN(values[i])}

\* the last position holding the maximum
IdxMaxLast(values) ==
    CHOOSE i \in Selectable(values) :
        \A j \in Selectable(values) :
            /\ ~FLess(values[i], values[j])
            /\ (j > i => FLess(values[j], values[i]))

\* series.idxmax(): the first position holding the maximum
IdxMax(values) ==
    CHOOSE i \in Selectable(values) :
        \A j \in Selectable(values) :
            /\ ~FLess(values[i], values[j])
            /\ (j < i => FLess(values[j], values[i]))

\* series.idxmin(): the first position holding the minimum
IdxMin(values) ==
    CHOOSE i \in Selectable(values) :
        \A j \in Selectable(values) :
            /\ ~FLess(values[j], values[i])
            /\ (j < i => FLess(values[i], values[j]))

NameMask(student_df, student_name) ==
    [i \in DOMAIN student_df |-> student_df[i].student_name = student_name]

NoDataMessage(student_name) == <<"No data found for student '", student_name, "'">>

\* progress renormalized by the number of the student's own records
ProgressPerRecord(stu_rows, lecture_df) ==
    FMul(FDiv(SumFloat([k \in DOMAIN stu_rows |-> stu_rows[k].progress]),
              FromInt(Len(stu_rows))), FromInt(100))

\* progress_percent before rounding: (sum of progress / number of weight rows) * 100
ProgressPercent(stu_rows, lecture_df) ==
    LET total_chapters == Len(lecture_df.rows)
        total_progress == SumFloat([k \in DOMAIN stu_rows |-> stu_rows[k].progress])
    IN  FMul(FDiv(total_progress, FromInt(total_chapters)), FromInt(100))

\* round(progress_percent, 2)
RoundProgress(progress_percent) == RoundTo(progress_percent, 100)

WeightColumn(lecture_df, skill) ==
    [i \in DOMAIN lecture_df.rows |-> FromInt(lecture_df.rows[i][skill])]

ChapterInfo(row, skill) ==
    [lecture |-> row.lecture, chapter |-> row.chapter, weight |-> row[skill]]

\* lecture_df.loc[lecture_df[skill].idxmax()]: the row with the highest weight in
\* column skill, as {lecture, chapter, weight}
BestChapter(lecture_df, skill) ==
    ChapterInfo(lecture_df.rows[IdxMax(WeightColumn(lecture_df, skill))], skill)

ScoreColumn(result) == [i \in DOMAIN result |-> result[i].normalized_score]

SkillEntry(row) == [skill |-> row.skill, normalized_score |-> row.normalized_score]

\* the returned dict
ReportDict(best_skill_row, worst_skill_row, lecture_df, progress_percent) ==
    [kind |-> "report",
     best_skill |-> SkillEntry(best_skill_row),
     worst_skill |-> SkillEntry(worst_skill_row),
     most_weighted_chapter_for_worst_skill |-> BestChapter(lecture_df, worst_skill_row.skill),
     progress_percent |-> RoundProgress(progress_percent)]

\* the selection of the best and worst rows of the score table
ReportSelect(result, scores, lecture_df, progress_percent) ==
    IF Selectable(scores) = {}
    THEN [ret |-> [kind |-> "fault", at |-> "idxmax"], table |-> result]
    ELSE [ret |-> ReportDict(result[IdxMax(scores)], result[IdxMin(scores)],
                             lecture_df, progress_percent),
          table |-> result]

ReportScores(result, lecture_df, progress_percent) ==
    ReportSelect(result, ScoreColumn(result), lecture_df, progress_percent)

\* the body after the empty check, on the private copy carrying exam_avg
ReportBody(work, lecture_df) ==
    ReportScores(SkillResult(work.rows, lecture_df), lecture_df,
                 ProgressPercent(work.rows, lecture_df))

\* the report without its empty check
ReportUnguarded(stu_df, lecture_df, student_name) ==
    ReportBody(WithExamAvg(Copy(stu_df)), lecture_df)

\* the empty check and the private copy
ReportFiltered(stu_df, lecture_df, student_name) ==
    IF stu_df.rows = <<>>
    THEN [ret |-> [kind |-> "no_data", message |-> NoDataMessage(student_name)],
          table |-> <<>>]
    ELSE ReportBody(WithExamAvg(Copy(stu_df)), lecture_df)

\* what report_student_skill_analysis returns, with the score table it computed
ReportOutcome(student_df, lecture_df, student_name) ==
    ReportFiltered(BoolIndex(student_df, NameMask(student_df, student_name)),
                   lecture_df, student_name)

\* save_fig_to_html(fig, output_path): the files the call leaves behind
SaveFigToHtml(fig, output_path) ==
    IF fig.kind = "none" THEN <<>> ELSE <<[path |-> output_path, fig |-> fig]>>

\* if save: save_fig_to_html(fig, output_path=...)
SaveIf(fig, output_path, save) ==
    IF save THEN SaveFigToHtml(fig, output_path) ELSE <<>>

RemoveAt(seq, m) == SubSeq(seq, 1, m - 1) \o SubSeq(seq, m + 1, Len(seq))

\* result.sort_values("skill")
RECURSIVE SortBySkill(_)
SortBySkill(rows) ==
    IF rows = <<>> THEN <<>>
    ELSE LET m == CHOOSE i \in DOMAIN rows :
                     \A j \in DOMAIN rows :
                        \/ SkillRank(rows[i].skill) < SkillRank(rows[j].skill)
                        \/ (SkillRank(rows[i].skill) = SkillRank(rows[j].skill) /\ i <= j)
         IN  <<rows[m]>> \o SortBySkill(RemoveAt(rows, m))

SkillFile(path, student_name) == <<path, "/", student_name, "_skill.html">>

\* f"{v:.1f}"
FormatOneDecimal(v) == RoundTo(v, 10)

\* values += values[:1]
CloseShape(values) == values \o SubSeq(values, 1, 1)

Scatterpolar(values, categories, student_name) ==
    [kind |-> "figure", chart |-> "radar",
     r |-> values,
     theta |-> categories \o <<categories[1]>>,
     text |-> [i \in DOMAIN values |-> FormatOneDecimal(values[i])],
     name |-> student_name]

\* the chart of the sorted score table; categories[0] of an empty table raises
RadarFigure(result, categories, student_name, save, path) ==
    IF categories = <<>>
    THEN [ret |-> [kind |-> "fault", at |-> "categories[0]"], table |-> result,
          written |-> <<>>]
    ELSE [ret |-> Scatterpolar(CloseShape(ScoreColumn(result)), categories, student_name),
          table |-> result,
          written |-> SaveIf(
                         Scatterpolar(CloseShape(ScoreColumn(result)), categories,
                                      student_name),
                         SkillFile(path, student_name), save)]

SkillColumn(result) == [i \in DOMAIN result |-> result[i].skill]

RadarSorted(result, student_name, save, path) ==
    RadarFigure(result, SkillColumn(result), student_name, save, path)

\* the body after the empty check, on the filtered frame carrying exam_avg
RadarBody(work, lecture_df, student_name, save, path) ==
    RadarSorted(SortBySkill(SkillResult(work.rows, lecture_df)), student_name, save, path)

RadarFiltered(stu_df, lecture_df, student_name, save, path) ==
    IF stu_df.rows = <<>>
    THEN [ret |-> [kind |-> "none"], table |-> <<>>, written |-> <<>>]
    ELSE RadarBody(WithExamAvg(stu_df), lecture_df, student_name, save, path)

\* what plot_student_proficiency_radar returns and writes, with its score table
RadarOutcome(student_df, lecture_df, student_name, save, path) ==
    RadarFiltered(BoolIndex(student_df, NameMask(student_df, student_name)),
                  lecture_df, student_name, save, path)

\* student_df after the radar's stu_df["exam_avg"] = ...
RadarInput(student_df, stu_df) ==
    IF stu_df.rows = <<>> THEN student_df
    ELSE ParentAfterSetItem(student_df, stu_df, "exam_avg", ExamAvgSeries(stu_df.rows))

---------------------------------------------------------------------------
(* The chart functions *)

\* pd.to_datetime on one cell: a text becomes a timestamp, a timestamp stays
ToDatetime(cell) ==
    IF "timestamp" \in DOMAIN cell THEN cell
    ELSE [timestamp |-> (cell.text[1] * 12 + cell.text[2]) * 31 + cell.text[3]]

\* pd.to_datetime(df["last_study_datetime"])
DatetimeSeries(rows) == [k \in DOMAIN rows |-> ToDatetime(rows[k].last_study_datetime)]

LectureMask(student_df, student_name, lecture) ==
    [i \in DOMAIN student_df |-> /\ student_df[i].student_name = student_name
                                 /\ student_df[i].lecture = lecture]

Column(rows, col) == [i \in DOMAIN rows |-> rows[i][col]]

RECURSIVE MaxInt(_)
MaxInt(seq) ==
    IF Len(seq) = 1 THEN seq[1]
    ELSE IF Head(seq) >= MaxInt(Tail(seq)) THEN Head(seq) ELSE MaxInt(Tail(seq))

\* px.line of column y over chapter with the y axis up to max * 1.1
LineFigure(rows, y, chart) ==
    [kind |-> "figure", chart |-> chart,
     x |-> Column(rows, "chapter"), y |-> Column(rows, y),
     hover |-> Column(rows, "last_study_datetime"),
     yrange |-> <<FromInt(0), FMul(FromInt(MaxInt(Column(rows, y))), Float(11, 10))>>]

LineFile(path, student_name, lecture, suffix) ==
    <<path, "/", student_name, "_lec_", lecture, suffix>>

\* the end of a chart function: the optional file, and the figure when it is returned
FigureDone(fig, returns, file, save) ==
    [ret |-> IF returns THEN fig ELSE [kind |-> "none"],
     written |-> SaveIf(fig, file, save)]

\* plot_student_lecture_time / plot_student_chapter_count after the filter
StudentLineFiltered(df, y, chart, file, save) ==
    IF df.rows = <<>>
    THEN [ret |-> [kind |-> "none"], written |-> <<>>]
    ELSE FigureDone(LineFigure(SetItem(df, "last_study_datetime", DatetimeSeries(df.rows)).rows,
                                 y, chart),
                      TRUE, file, save)

\* student_df after df["last_study_datetime"] = pd.to_datetime(...)
StudentLineInput(student_df, df) ==
    IF df.rows = <<>> THEN student_df
    ELSE ParentAfterSetItem(student_df, df, "last_study_datetime", DatetimeSeries(df.rows))

ChapterMask(student_df, lecture, chapter) ==
    [i \in DOMAIN student_df |-> /\ student_df[i].lecture = lecture
                                 /\ student_df[i].chapter = chapter]

ExamAll == [kind |-> "all", n |-> 0]

ExamInt(n) == [kind |-> "int", n |-> n]

\* the score column for the chosen exam
Score(row, exam) ==
    IF exam = ExamAll THEN ExamAvg(row)
    ELSE IF exam.n = 1 THEN FromInt(row.exam1) ELSE FromInt(row.exam2)

\* range(0, 101, bin_size)
RECURSIVE PyRange(_, _, _)
PyRange(start, stop, step) ==
    IF start >= stop THEN <<>> ELSE <<start>> \o PyRange(start + step, stop, step)

\* the closing edge of the score range the bins are laid over: range(0, 101, ...)
RangeStop == 101

\* pd.cut(score, bins, right=False, include_lowest=True): the interval
\* [bins[k], bins[k+1]) holding the score, 0 (NaN) when no interval holds it
BinOf(score, bins) ==
    IF \E k \in 1..(Len(bins) - 1) :
          ~FLess(score, FromInt(bins[k])) /\ FLess(score, FromInt(bins[k + 1]))
    THEN CHOOSE k \in 1..(Len(bins) - 1) :
          ~FLess(score, FromInt(bins[k])) /\ FLess(score, FromInt(bins[k + 1]))
    ELSE 0

IntervalLabel(bins, k) == <<"[", bins[k], ", ", bins[k + 1], ")">>

\* df["score_bin"].value_counts().sort_index(): one row per interval, in interval
\* order, counting the rows whose score_bin is that interval (NaN is not counted)
ValueCounts(score_bins, bins) ==
    [k \in 1..(Len(bins) - 1) |->
        [ScoreRange |-> IntervalLabel(bins, k),
         StudentCount |-> Cardinality({i \in DOMAIN score_bins : score_bins[i] = k})]]

ScoreBins(scores, bins) == [i \in DOMAIN scores |-> BinOf(scores[i], bins)]

BarFigure(score_dist, chart) ==
    [kind |-> "figure", chart |-> chart,
     x |-> Column(score_dist, "ScoreRange"), y |-> Column(score_dist, "StudentCount")]

ScoreFile(path, lecture, chapter, exam) ==
    <<path, "/lec_", lecture, "_ch_", chapter, "_exam_",
      IF exam = ExamAll THEN <<"all">> ELSE <<exam.n>>, "_score.html">>

ScoreDistCounted(dist, file, save) ==
    [ret |-> [kind |-> "none"], dist |-> dist,
     written |-> SaveIf(BarFigure(dist, "score"), file, save)]

\* plot_score_distribution_by_chapter after the filter; the function returns nothing
ScoreDistFiltered(df, exam, bin_size, file, save) ==
    IF df.rows = <<>>
    THEN [ret |-> [kind |-> "none"], dist |-> <<>>, written |-> <<>>]
    ELSE IF ~(exam = ExamAll \/ (exam.kind = "int" /\ exam.n \in {1, 2}))
    THEN [ret |-> [kind |-> "fault", at |-> "ValueError"], dist |-> <<>>, written |-> <<>>]
    ELSE ScoreDistCounted(
            ValueCounts(ScoreBins([i \in DOMAIN df.rows |-> Score(df.rows[i], exam)],
                                  PyRange(0, RangeStop, bin_size)),
                        PyRange(0, RangeStop, bin_size)),
            file, save)

ScoreDistOutcome(student_df, lecture, chapter, exam, bin_size, save, path) ==
    ScoreDistFiltered(Copy(BoolIndex(student_df, ChapterMask(student_df, lecture, chapter))),
                      exam, bin_size, ScoreFile(path, lecture, chapter, exam), save)

OnlyLectureMask(student_df, lecture) ==
    [i \in DOMAIN student_df |-> student_df[i].lecture = lecture]

\* the chapters present, ascending
RECURSIVE SortedInts(_)
SortedInts(S) ==
    IF S = {} THEN <<>>
    ELSE <<CHOOSE x \in S : \A y \in S : x <= y>>
         \o SortedInts(S \ {CHOOSE x \in S : \A y \in S : x <= y})

Mean(vals) == FDiv(SumFloat(vals), FromInt(Len(vals)))

\* the column as floats (time is an integer column)
FloatColumn(rows, col) ==
    [i \in DOMAIN rows |-> IF col = "time" THEN FromInt(rows[i][col]) ELSE rows[i][col]]

GroupMean(rows, chapter, col) ==
    Mean(FloatColumn(SelectSeq(rows, LAMBDA r : r.chapter = chapter), col))

\* df.groupby("chapter")[col].mean().reset_index().sort_values("chapter")
ChapterMeans(rows, chapters, col) ==
    [g \in DOMAIN chapters |->
        [chapter |-> chapters[g], mean |-> GroupMean(rows, chapters[g], col)]]

ChapterFigure(means, chart) ==
    [kind |-> "figure", chart |-> chart,
     x |-> Column(means, "chapter"), y |-> Column(means, "mean")]

LectureFile(path, lecture, suffix) == <<path, "/lec_", lecture, suffix>>

\* chapter_progress['progress'] *= 100
TimesHundred(means) ==
    [g \in DOMAIN means |-> [means[g] EXCEPT !.mean = FMul(means[g].mean, FromInt(100))]]

ChaptersPresent(rows) == SortedInts({rows[i].chapter : i \in DOMAIN rows})

\* the three per-lecture charts after the filter: the group means (as a percentage
\* for the progress bar), the figure, the optional file; only two of them return it
ChapterChartFiltered(df, col, chart, percent, returns, file, save) ==
    IF df.rows = <<>>
    THEN [ret |-> [kind |-> "none"], written |-> <<>>]
    ELSE FigureDone(
            ChapterFigure(
               IF percent
               THEN TimesHundred(ChapterMeans(df.rows, ChaptersPresent(df.rows), col))
               ELSE ChapterMeans(df.rows, ChaptersPresent(df.rows), col),
               chart),
            returns, file, save)

---------------------------------------------------------------------------
(* The input tables *)

\* (lecture, chapter) of the k-th row of lecture_weights
KeyList == <<[lecture |-> 1, chapter |-> 1], [lecture |-> 1, chapter |-> 2],
             [lecture |-> 2, chapter |-> 1], [lecture |-> 2, chapter |-> 2],
             [lecture |-> 3, chapter |-> 1], [lecture |-> 3, chapter |-> 2]>>

\* the weights one row may carry
WeightVectors ==
    { [Dart |-> 0, State |-> 1, Widget |-> 0],
      [Dart |-> 1, State |-> 1, Widget |-> 0],
      [Dart |-> 2, State |-> 2, Widget |-> 1] }

\* the skill columns of lecture_weights, in the order the table has them
ColumnOrders == { <<"Dart", "Widget">>, <<"Widget", "State", "Dart">> }

WeightRow(k, skills, w) ==
    [c \in IdVars \cup Range(skills) |->
        IF c = "lecture" THEN KeyList[k].lecture
        ELSE IF c = "chapter" THEN KeyList[k].chapter
        ELSE w[c]]

WeightTables ==
    { [columns |-> <<"lecture", "chapter">> \o skills,
       rows |-> [k \in 1..n |-> WeightRow(k, skills, ws[k])]] :
         <<skills, n, ws>> \in
            UNION { {<<sk, m, f>> : f \in [1..m -> WeightVectors]} :
                       <<sk, m>> \in ColumnOrders \X (0..MaxRows) } }

\* the weight table of the Alice scenario
AliceWeights ==
    [columns |-> <<"lecture", "chapter", "Dart", "Widget">>,
     rows |-> << [lecture |-> 1, chapter |-> 1, Dart |-> 2, Widget |-> 1],
                 [lecture |-> 1, chapter |-> 2, Dart |-> 1, Widget |-> 3] >>]

Half == Float(1, 2)

StudentRow(name, lecture, chapter, exam1, exam2, progress) ==
    [student_name |-> name, lecture |-> lecture, chapter |-> chapter,
     exam1 |-> exam1, exam2 |-> exam2, progress |-> progress,
     count |-> chapter, time |-> 30 * chapter,
     last_study_datetime |-> [text |-> <<2024, lecture, chapter>>]]

\* the records of the Alice scenario
AliceRecords ==
    << StudentRow("Alice", 1, 1, 80, 100, Half), StudentRow("Alice", 1, 2, 60, 60, Half) >>

\* the rows student_records may hold, by (student, lecture, chapter)
RecordSlots ==
    << { StudentRow("Alice", 1, 1, 80, 100, Half), StudentRow("Alice", 1, 1, 100, 100, FromInt(1)) },
       { StudentRow("Alice", 1, 2, 80, 100, Half), StudentRow("Alice", 1, 2, 100, 100, FromInt(1)) },
       { StudentRow("Bob", 1, 1, 60, 60, FromInt(1)) } >>

RECURSIVE SortedSeq(_)
SortedSeq(S) ==
    IF S = {} THEN <<>>
    ELSE LET m == CHOOSE x \in S : \A y \in S : x <= y
         IN  <<m>> \o SortedSeq(S \ {m})

\* tables of at most MaxRecords rows with no (student, lecture, chapter) twice
RecordTables ==
    UNION { LET slots == SortedSeq(S)
            IN  { [k \in DOMAIN slots |-> pick[slots[k]]] :
                     pick \in { f \in [S -> UNION Range(RecordSlots)] :
                                   \A i \in S : f[i] \in RecordSlots[i] } } :
            S \in { T \in SUBSET DOMAIN RecordSlots : Cardinality(T) <= MaxRecords } }

Inputs ==
    (RecordTables \X WeightTables) \cup {<<AliceRecords, AliceWeights>>}

NoCall == [op |-> "none"]

Init ==
    /\ \E in \in Inputs : student_records = in[1] /\ lecture_weights = in[2]
    /\ call = NoCall
    /\ ret = [kind |-> "none"]
    /\ last_result = <<>>
    /\ last_score_dist = <<>>
    /\ written = <<>>

Returned(op, out) ==
    /\ call' = op
    /\ ret' = out.ret
    /\ last_result' = out.table
    /\ last_score_dist' = <<>>
    /\ written' = out.written

Report(student_name) ==
    /\ Returned([op |-> "report", student_name |-> student_name],
                ReportOutcome(student_records, lecture_weights, student_name)
                    @@ [written |-> <<>>])
    /\ UNCHANGED <<student_records, lecture_weights>>

Radar(student_name, save) ==
    /\ Returned([op |-> "radar", student_name |-> student_name, save |-> save],
                RadarOutcome(student_records, lecture_weights, student_name, save,
                             DefaultPath))
    /\ student_records' =
          RadarInput(student_records,
                     BoolIndex(student_records, NameMask(student_records, student_name)))
    /\ UNCHANGED lecture_weights

PlotReturned(op, out) ==
    /\ call' = op
    /\ ret' = out.ret
    /\ written' = out.written
    /\ last_result' = <<>>

\* the arguments the chart functions are called with
Lectures == {1, 2}

Chapters == {1, 2}

ExamChoices == {ExamAll, ExamInt(1), ExamInt(2), ExamInt(3)}

BinSizes == {10, 30}

PlotStudentLectureTime(student_name, lecture, save) ==
    /\ PlotReturned([op |-> "lecture_time", student_name |-> student_name,
                     lecture |-> lecture, save |-> save],
                    StudentLineFiltered(
                        BoolIndex(student_records,
                                  LectureMask(student_records, student_name, lecture)),
                        "time", "time",
                        LineFile(DefaultPath, student_name, lecture, "_time.html"), save))
    /\ student_records' =
          StudentLineInput(student_records,
                           BoolIndex(student_records,
                                     LectureMask(student_records, student_name, lecture)))
    /\ last_score_dist' = <<>>
    /\ UNCHANGED lecture_weights

PlotStudentChapterCount(student_name, lecture, save) ==
    /\ PlotReturned([op |-> "chapter_count", student_name |-> student_name,
                     lecture |-> lecture, save |-> save],
                    StudentLineFiltered(
                        BoolIndex(student_records,
                                  LectureMask(student_records, student_name, lecture)),
                        "count", "count",
                        LineFile(DefaultPath, student_name, lecture,
                                 "_incorrect_count.html"), save))
    /\ student_records' =
          StudentLineInput(student_records,
                           BoolIndex(student_records,
                                     LectureMask(student_records, student_name, lecture)))
    /\ last_score_dist' = <<>>
    /\ UNCHANGED lecture_weights

ScoreDistReturned(op, out) ==
    /\ PlotReturned(op, out)
    /\ last_score_dist' = out.dist

PlotScoreDistributionByChapter(lecture, chapter, exam, bin_size, save) ==
    /\ ScoreDistReturned([op |-> "score_distribution", lecture |-> lecture,
                          chapter |-> chapter, exam |-> exam, bin_size |-> bin_size,
                          save |-> save],
                         ScoreDistOutcome(student_records, lecture, chapter, exam,
                                          bin_size, save, DefaultPath))
    /\ UNCHANGED <<student_records, lecture_weights>>

PlotChapterAvgTimePie(lecture, save) ==
    /\ PlotReturned([op |-> "avg_time_pie", lecture |-> lecture, save |-> save],
                    ChapterChartFiltered(
                        BoolIndex(student_records, OnlyLectureMask(student_records, lecture)),
                        "time", "pie", FALSE, TRUE,
                        LectureFile(DefaultPath, lecture, "_chapter_avg_time_pie.html"),
                        save))
    /\ last_score_dist' = <<>>
    /\ UNCHANGED <<student_records, lecture_weights>>

PlotChapterExamScore(lecture, save) ==
    /\ PlotReturned([op |-> "exam_score", lecture |-> lecture, save |-> save],
                    ChapterChartFiltered(
                        WithExamAvg(Copy(BoolIndex(student_records,
                                                   OnlyLectureMask(student_records, lecture)))),
                        "exam_avg", "exam_avg", FALSE, TRUE,
                        LectureFile(DefaultPath, lecture, "_chapter_exam_avg_line.html"),
                        save))
    /\ last_score_dist' = <<>>
    /\ UNCHANGED <<student_records, lecture_weights>>

PlotChapterProgressBar(lecture, save) ==
    /\ PlotReturned([op |-> "progress_bar", lecture |-> lecture, save |-> save],
                    ChapterChartFiltered(
                        BoolIndex(student_records, OnlyLectureMask(student_records, lecture)),
                        "progress", "progress", TRUE, FALSE,
                        LectureFile(DefaultPath, lecture, "_chapter_progress_bar.html"),
                        save))
    /\ last_score_dist' = <<>>
    /\ UNCHANGED <<student_records, lecture_weights>>

Next ==
    \/ \E n \in StudentNames : Report(n)
    \/ \E n \in StudentNames, save \in BOOLEAN : Radar(n, save)

Spec == Init /\ [][Next]_vars


\* the tables the chart functions are exercised on
PlotWeightTables == {AliceWeights} \cup {t \in WeightTables : t.rows = <<>>}

PlotInputs == (RecordTables \cup {AliceRecords}) \X PlotWeightTables

InitPlots ==
    /\ \E in \in PlotInputs : student_records = in[1] /\ lecture_weights = in[2]
    /\ call = NoCall
    /\ ret = [kind |-> "none"]
    /\ last_result = <<>>
    /\ last_score_dist = <<>>
    /\ written = <<>>

NextPlots ==
    \/ \E n \in StudentNames : Report(n)
    \/ \E n \in StudentNames, save \in BOOLEAN : Radar(n, save)
    \/ \E n \in StudentNames, l \in Lectures, save \in BOOLEAN :
          PlotStudentLectureTime(n, l, save)
    \/ \E n \in StudentNames, l \in Lectures, save \in BOOLEAN :
          PlotStudentChapterCount(n, l, save)
    \/ \E l \in Lectures, c \in Chapters, e \in ExamChoices, b \in BinSizes,
          save \in BOOLEAN : PlotScoreDistributionByChapter(l, c, e, b, save)
    \/ \E l \in Lectures, save \in BOOLEAN : PlotChapterAvgTimePie(l, save)
    \/ \E l \in Lectures, save \in BOOLEAN : PlotChapterExamScore(l, save)
    \/ \E l \in Lectures, save \in BOOLEAN : PlotChapterProgressBar(l, save)

SpecPlots == InitPlots /\ [][NextPlots]_vars


---------------------------------------------------------------------------
(* The claims.  Each is stated over the state a call leaves: call (the     *)
(* operation and its arguments), ret (what it returned, or the fault it    *)
(* ended in), last_result (the score table it computed), last_score_dist   *)
(* (the interval counts it computed) and written (the files it wrote).     *)

\* the sum of f[x] over x in S
RECURSIVE SumOver(_, _)
SumOver(S, f) ==
    IF S = {} THEN 0
    ELSE LET x == CHOOSE y \in S : TRUE IN f[x] + SumOver(S \ {x}, f)

\* the same for fractions n/d, as <<numerator, denominator>>
RECURSIVE SumFractions(_, _)
SumFractions(S, f) ==
    IF S = {} THEN <<0, 1>>
    ELSE LET x == CHOOSE y \in S : TRUE
             rest == SumFractions(S \ {x}, f)
         IN  <<f[x][1] * rest[2] + rest[1] * f[x][2], f[x][2] * rest[2]>>

SkillColumns == Range(lecture_weights.columns) \ IdVars

WeightRows == DOMAIN lecture_weights.rows

RecordsOf(name) == {i \in DOMAIN student_records : student_records[i].student_name = name}

SameChapter(i, j) ==
    /\ student_records[i].lecture = lecture_weights.rows[j].lecture
    /\ student_records[i].chapter = lecture_weights.rows[j].chapter

MatchedPairs(name) == {p \in RecordsOf(name) \X WeightRows : SameChapter(p[1], p[2])}

HasRecord(name) == RecordsOf(name) # {}

HasMatch(name) == MatchedPairs(name) # {}

ScoreCall == call.op \in {"report", "radar"}

\* twice the raw score: the sum of (exam1 + exam2) * weight over the matched pairs
RawTwice(name, skill) ==
    SumOver(MatchedPairs(name),
            [p \in MatchedPairs(name) |->
                (student_records[p[1]].exam1 + student_records[p[1]].exam2)
                   * lecture_weights.rows[p[2]][skill]])

WeightTotal(skill) ==
    SumOver(WeightRows, [j \in WeightRows |-> lecture_weights.rows[j][skill]])

\* raw_score / max_score * 100 with raw_score = RawTwice / 2, max_score = 100 * total
ExpectedNormalized(name, skill) ==
    Float(100 * RawTwice(name, skill), 2 * 100 * WeightTotal(skill))

RowsOfSkill(skill) == {k \in DOMAIN last_result : last_result[k].skill = skill}

ScoresAsClaimed(name) ==
    \A s \in SkillColumns :
        /\ Cardinality(RowsOfSkill(s)) = 1
        /\ \A k \in RowsOfSkill(s) :
              /\ last_result[k].raw_score = Float(RawTwice(name, s), 2)
              /\ last_result[k].max_score = 100 * WeightTotal(s)
              /\ last_result[k].normalized_score = ExpectedNormalized(name, s)

AliceScenario ==
    /\ student_records = AliceRecords
    /\ lecture_weights = AliceWeights
    /\ ScoreCall
    /\ call.student_name = "Alice"

AliceScores ==
    /\ Len(last_result) = 2
    /\ last_result[1].skill = "Dart" /\ last_result[1].normalized_score = Float(80, 1)
    /\ last_result[2].skill = "Widget" /\ last_result[2].normalized_score = Float(675, 10)

\* C1 as stated: for every student with at least one record and every skill column,
\* report and radar compute normalized_score = raw_score / max_score * 100, raw_score
\* summed over the student's records that have a weight row only, max_score = 100 *
\* the column's total weight; the Alice scenario yields Dart 80.0 and Widget 67.5.
C1_AsStated ==
    /\ (ScoreCall /\ HasRecord(call.student_name)) => ScoresAsClaimed(call.student_name)
    /\ AliceScenario => AliceScores

\* C1 (amended): the same for every student with at least one record whose
\* (lecture, chapter) has a row in lecture_weights; a student none of whose records
\* has a weight row gets an empty score table.
C1_NormalizedScore ==
    /\ (ScoreCall /\ HasMatch(call.student_name)) => ScoresAsClaimed(call.student_name)
    /\ (ScoreCall /\ HasRecord(call.student_name) /\ ~HasMatch(call.student_name))
          => last_result = <<>>
    /\ AliceScenario => AliceScores

\* a student with a matched and an unmatched record has been scored
C1_Witness ==
    /\ ScoreCall
    /\ HasMatch(call.student_name)
    /\ \E i \in RecordsOf(call.student_name) : \A j \in WeightRows : ~SameChapter(i, j)
    /\ \E k \in DOMAIN last_result : /\ IsFinite(last_result[k].normalized_score)
                                     /\ last_result[k].normalized_score.num > 0

\* C2: when no record has the given student_name, report returns the explicit no-data
\* result (no report record, no fault) and radar returns no figure and writes no file,
\* whatever lecture_weights and save are.
C2_NoData ==
    /\ (call.op = "report" /\ ~HasRecord(call.student_name))
          => ret = [kind |-> "no_data", message |-> NoDataMessage(call.student_name)]
    /\ (call.op = "radar" /\ ~HasRecord(call.student_name))
          => (ret = [kind |-> "none"] /\ written = <<>>)

\* report was asked about a student absent from a table that holds other students
C2_Witness ==
    /\ call.op = "report"
    /\ ~HasRecord(call.student_name)
    /\ student_records # <<>>
    /\ lecture_weights.rows # <<>>
    /\ ret.kind = "no_data"

\* the weight rows where the skill carries weight
WeightedRows(skill) == {j \in WeightRows : lecture_weights.rows[j][skill] > 0}

\* the student has a record in every weighted chapter of the skill, each with
\* exam_avg = 100
FullMarksOn(name, skill) ==
    /\ WeightedRows(skill) # {}
    /\ \A j \in WeightRows : lecture_weights.rows[j][skill] >= 0
    /\ \A j \in WeightedRows(skill) :
          /\ \E i \in RecordsOf(name) : SameChapter(i, j)
          /\ \A i \in RecordsOf(name) :
                SameChapter(i, j) =>
                    student_records[i].exam1 + student_records[i].exam2 = 200

Ranked == {k \in DOMAIN last_result : ~IsNaN(last_result[k].normalized_score)}

EntryOf(k) ==
    [skill |-> last_result[k].skill, normalized_score |-> last_result[k].normalized_score]

\* C4: best_skill is a skill with the maximal normalized_score and worst_skill one with
\* the minimal; among skills tied for it the first in ascending skill-name order.
C4_BestWorst ==
    ret.kind = "report" =>
        /\ \E b \in Ranked :
              /\ ret.best_skill = EntryOf(b)
              /\ \A k \in Ranked :
                    /\ ~FLess(last_result[b].normalized_score, last_result[k].normalized_score)
                    /\ last_result[k].normalized_score = last_result[b].normalized_score
                          => SkillRank(last_result[b].skill) <= SkillRank(last_result[k].skill)
        /\ \E w \in Ranked :
              /\ ret.worst_skill = EntryOf(w)
              /\ \A k \in Ranked :
                    /\ ~FLess(last_result[k].normalized_score, last_result[w].normalized_score)
                    /\ last_result[k].normalized_score = last_result[w].normalized_score
                          => SkillRank(last_result[w].skill) <= SkillRank(last_result[k].skill)

\* two skills tie for the maximum above a third, in a table whose columns are not in
\* name order
C4_Witness ==
    /\ ret.kind = "report"
    /\ lecture_weights.columns = <<"lecture", "chapter", "Widget", "State", "Dart">>
    /\ \E a, b, c \in Ranked :
          /\ last_result[a].skill = ret.best_skill.skill
          /\ b # a
          /\ last_result[b].normalized_score = last_result[a].normalized_score
          /\ FLess(last_result[c].normalized_score, last_result[a].normalized_score)

ChapterOf(j, skill) ==
    [lecture |-> lecture_weights.rows[j].lecture,
     chapter |-> lecture_weights.rows[j].chapter,
     weight |-> lecture_weights.rows[j][skill]]

\* C5: most_weighted_chapter_for_worst_skill is the (lecture, chapter, weight) of the
\* row of lecture_weights with the maximal weight in the worst skill's column, the
\* first such row in the table's order when several tie.
C5_MostWeighted ==
    ret.kind = "report" =>
        \E j \in WeightRows :
            /\ ret.most_weighted_chapter_for_worst_skill = ChapterOf(j, ret.worst_skill.skill)
            /\ \A i \in WeightRows :
                  /\ lecture_weights.rows[i][ret.worst_skill.skill]
                        <= lecture_weights.rows[j][ret.worst_skill.skill]
                  /\ i < j => lecture_weights.rows[i][ret.worst_skill.skill]
                                 < lecture_weights.rows[j][ret.worst_skill.skill]

\* two rows tie for the highest positive weight of the worst skill
C5_Witness ==
    /\ ret.kind = "report"
    /\ \E i, j \in WeightRows :
          /\ i < j
          /\ lecture_weights.rows[i][ret.worst_skill.skill] > 0
          /\ lecture_weights.rows[i][ret.worst_skill.skill]
                = lecture_weights.rows[j][ret.worst_skill.skill]
          /\ ret.most_weighted_chapter_for_worst_skill = ChapterOf(i, ret.worst_skill.skill)

\* the sum of the student's progress values, as <<numerator, denominator>>
ProgressSum(name) ==
    SumFractions(RecordsOf(name),
                 [i \in RecordsOf(name) |->
                     <<student_records[i].progress.num, student_records[i].progress.den>>])

\* p is x rounded to 2 decimal places: a multiple of 1/100 within 1/200 of x
IsRounded2(p, x) ==
    /\ IsFinite(p) /\ IsFinite(x)
    /\ 100 % p.den = 0
    /\ 200 * Abs(p.num * x.den - x.num * p.den) <= p.den * x.den

\* C6: progress_percent = (sum of the student's progress / number of rows of
\* lecture_weights) * 100 rounded to 2 places, not renormalized by the number of the
\* student's records; a sum of exactly half the row count gives 50.00.
C6_Progress ==
    ret.kind = "report" =>
        /\ IsRounded2(ret.progress_percent,
                      [num |-> 100 * ProgressSum(call.student_name)[1],
                       den |-> ProgressSum(call.student_name)[2] * Cardinality(WeightRows)])
        /\ (2 * ProgressSum(call.student_name)[1]
               = Cardinality(WeightRows) * ProgressSum(call.student_name)[2])
              => ret.progress_percent = [num |-> 50, den |-> 1]

\* a student with one record whose progress sums to half of two weight rows
C6_Witness ==
    /\ ret.kind = "report"
    /\ Cardinality(RecordsOf(call.student_name)) = 1
    /\ Cardinality(WeightRows) = 2
    /\ ProgressSum(call.student_name)[1] = ProgressSum(call.student_name)[2]
    /\ ret.progress_percent = [num |-> 50, den |-> 1]

\* C7 as stated: with a skill column whose weights are all zero, scoring a student
\* who has matching records does not crash: that skill's normalized_score is NaN and
\* the call completes with a defined result, also when every skill column is all-zero.
C7_ZeroWeightNoCrash ==
    (ScoreCall /\ HasMatch(call.student_name)
        /\ \E s \in SkillColumns : WeightTotal(s) = 0)
    => /\ ret.kind \in {"report", "figure"}
       /\ \A s \in SkillColumns :
             WeightTotal(s) = 0 =>
                 \A k \in RowsOfSkill(s) : IsNaN(last_result[k].normalized_score)

\* C8: no operation mutates its input tables (the derived columns live in a private
\* working copy), so repeating a call with the same inputs returns the same result.
C8_InputsUntouched ==
    [][/\ student_records' = student_records
       /\ lecture_weights' = lecture_weights
       /\ call' = call => (ret' = ret /\ written' = written)]_vars

\* the radar has drawn a student's chart and the records still carry no exam_avg
\* column
C8_Witness ==
    /\ call.op = "radar"
    /\ ret.kind = "figure"
    /\ \A i \in DOMAIN student_records :
          /\ "exam_avg" \notin DOMAIN student_records[i]
          /\ DOMAIN student_records[i].last_study_datetime = {"text"}

\* C9 as stated: report ends either with the report record (the student has a record)
\* or with the no-data result (the student has none), never with an uncaught fault.
C9_TwoOutcomes ==
    call.op = "report" =>
        /\ HasRecord(call.student_name) => ret.kind = "report"
        /\ ~HasRecord(call.student_name) => ret.kind = "no_data"

ChapterRecords(lecture, chapter) ==
    {i \in DOMAIN student_records : /\ student_records[i].lecture = lecture
                                    /\ student_records[i].chapter = chapter}

CountOf(k) == last_score_dist[k].StudentCount

\* C10 as stated: in plot_score_distribution_by_chapter every record of the lecture and
\* chapter is counted in exactly one score interval, so the counts sum to the number
\* of filtered records (scores of exactly 100 included).
C10_EveryScoreCounted ==
    (/\ call.op = "score_distribution"
     /\ call.exam \in {ExamAll, ExamInt(1), ExamInt(2)}
     /\ ChapterRecords(call.lecture, call.chapter) # {})
    => SumOver(DOMAIN last_score_dist, [k \in DOMAIN last_score_dist |-> CountOf(k)])
          = Cardinality(ChapterRecords(call.lecture, call.chapter))

=============================================================================
